---------------------------- MODULE Spec2Model ----------------------------
(***************************************************************************)
(* A model of india_sentiment_dashboard.py: one execution of the Streamlit *)
(* script (token check, client construction, widgets, the "Fetch Tweets"   *)
(* button, fetch_tweets, the mock fallback and the derived metrics), and   *)
(* the re-execution of the script on the next interaction.                 *)
(*                                                                         *)
(* Time is counted in minutes since an epoch; a polarity is counted in     *)
(* tenths, so PolMin..PolMax stands for -1.0 .. 1.0.                       *)
(***************************************************************************)
EXTENDS Integers, Sequences, FiniteSets, TLC

VARIABLES
  BEARER_TOKEN,      \* line 16: the environment variable, None when unset
  client,            \* lines 23-28: None or the client handle
  keyword,           \* line 35: the text input
  max_results,       \* line 36: the slider
  clicked,           \* line 84: whether this execution is a button press
  pc,                \* the position of the script
  ui,                \* the messages shown so far, in order: <<level, text>>
  tweets,            \* line 87 / 91: the variable `tweets`
  fetch_ret,         \* what fetch_tweets returned at line 87
  fetch_error,       \* the exception fetch_tweets caught, None if none
  escaped,           \* the exception fetch_tweets let through, None if none
  api_calls,         \* calls of client.search_recent_tweets in this execution
  mock_calls,        \* calls of generate_mock_data in this execution
  mock_ret,          \* what generate_mock_data returned at line 91
  now,               \* line 69: the clock value generate_mock_data read
  df,                \* line 94: the DataFrame, a sequence of rows
  lang_counts,       \* line 100
  sentiment_counts,  \* line 112
  all_text,          \* line 121
  trend,             \* line 138: <<date, count>> pairs in index order
  top_likes,         \* line 149
  top_retweets       \* line 160

vars == <<BEARER_TOKEN, client, keyword, max_results, clicked, pc, ui, tweets,
          fetch_ret, fetch_error, escaped, api_calls, mock_calls, mock_ret,
          now, df, lang_counts, sentiment_counts, all_text, trend, top_likes,
          top_retweets>>

-----------------------------------------------------------------------------
(* Bounds of the model *)

\* the longest response.data the search call returns in Spec
MaxLive == 2
\* the longest record sequence the pipeline is given in SpecPipe
MaxRecs == 6

(* Constants of the program *)

\* st.slider("Max Tweets to Fetch:", 5, 20, 10)
SliderMin == 5
SliderMax == 20
SliderDefault == 10
\* timedelta(minutes=i*5)
MockStepMinutes == 5
\* "retweets": i * 2, "likes": i * 3
MockRetweetFactor == 2
MockLikeFactor == 3
\* df.nlargest(5, ...)
TopN == 5

MinutesPerDay == 24 * 60

\* the polarity range of TextBlob, in tenths
PolMin == 0 - 10
PolMax == 0 + 10
Polarities == PolMin..PolMax

None == "None"
\* Python's None where an object (a dict) is expected
PyNone == [py_none |-> TRUE]
IsNone(x) == DOMAIN x = {"py_none"}

Min(a, b) == IF a < b THEN a ELSE b

\* Python's `sub in s` on strings
Contains(s, sub) ==
  \E k \in 1..(Len(s) - Len(sub) + 1) : SubSeq(s, k, k + Len(sub) - 1) = sub

-----------------------------------------------------------------------------
(* The environment: token values, user inputs, the clock, the search API *)

\* os.getenv("BEARER_TOKEN"): unset, set to the empty string, or a token
TokenValues == {None, "", "AAAA"}

Keywords == {"Pakistan", "India wins"}

\* datetime.now(): midnight, a quarter to one, and mid-morning of day 2
NowValues == {2 * MinutesPerDay, 2 * MinutesPerDay + 45, 2 * MinutesPerDay + 600}

\* a tweepy Tweet object as fetch_tweets reads it
Tweet(text, created_at, lang, public_metrics) ==
  [text |-> text, created_at |-> created_at, lang |-> lang,
   public_metrics |-> public_metrics]

Metrics(r, l) == [retweet_count |-> r, like_count |-> l]

\* well-formed tweets the search may return
GoodTweets ==
  { Tweet("cricket win", 2 * MinutesPerDay - 1, "en", Metrics(0, 1)),
    Tweet("it is", 2 * MinutesPerDay, "en", Metrics(1, 1)),
    Tweet("match day", 2 * MinutesPerDay - 1, "hi", Metrics(1, 0)) }

\* a tweet whose public_metrics is None: reading it raises AttributeError
BadTweet == Tweet("broken", 2 * MinutesPerDay, "en", PyNone)

ApiTweets == GoodTweets \cup {BadTweet}

SeqsUpTo(S, n) == UNION { [1..k -> S] : k \in 0..n }

\* the outcomes of client.search_recent_tweets: it raises, or returns a response
ApiOutcomes(limit) ==
  { [raises |-> "TweepyException", data |-> <<>>] } \cup
  { [raises |-> None, data |-> d] : d \in SeqsUpTo(ApiTweets, Min(MaxLive, limit)) }

-----------------------------------------------------------------------------
(* fetch_tweets, lines 41-63 *)

\* line 43: `if not client`
ClientMissing(cl) == cl = None

\* lines 54-60: the dict built from one tweet
ToRecord(tweet) ==
  [text |-> tweet.text, created_at |-> tweet.created_at, lang |-> tweet.lang,
   retweets |-> tweet.public_metrics.retweet_count,
   likes |-> tweet.public_metrics.like_count]

\* lines 53-60: the loop over response.data; a tweet whose public_metrics is
\* None raises at line 58, after the earlier tweets were appended
RECURSIVE ReadRecords(_, _)
ReadRecords(data, all_tweets) ==
  IF data = <<>> THEN [ret |-> all_tweets, error |-> None]
  ELSE IF IsNone(Head(data).public_metrics)
       THEN [ret |-> all_tweets, error |-> "AttributeError"]
       ELSE ReadRecords(Tail(data), Append(all_tweets, ToRecord(Head(data))))

\* line 61: `except Exception` catches every exception the try block raises here
Caught(e) == e \in {"TweepyException", "AttributeError"}

\* the whole function: what it returns, the exception it caught (and reported
\* at line 62), the exception it let through, and the API calls it made
fetch_tweets(cl, api) ==
  IF ClientMissing(cl)
  THEN [ret |-> <<>>, error |-> None, escaped |-> None, calls |-> 0]
  ELSE LET r == IF api.raises # None
                THEN [ret |-> <<>>, error |-> api.raises]
                ELSE ReadRecords(api.data, <<>>)
       IN  [ret |-> r.ret,
            error |-> IF Caught(r.error) THEN r.error ELSE None,
            escaped |-> IF Caught(r.error) THEN None ELSE r.error,
            calls |-> 1]

-----------------------------------------------------------------------------
(* generate_mock_data, lines 68-79 *)

MockText(query, i) == "This is a mock tweet about " \o query \o " #" \o ToString(i)

MockRecord(query, i, t) ==
  [text |-> MockText(query, i),
   created_at |-> t - i * MockStepMinutes,
   lang |-> "en",
   retweets |-> i * MockRetweetFactor,
   likes |-> i * MockLikeFactor]

\* a generator that counts the index from 1
generate_mock_data_from_one(query, n, t) ==
  [k \in 1..n |-> MockRecord(query, k, t)]

\* for i in range(n): the k-th element has index i = k - 1
generate_mock_data(query, n, t) ==
  [k \in 1..n |-> MockRecord(query, k - 1, t)]

-----------------------------------------------------------------------------
(* The derived metrics, lines 94-160 *)

\* pd.DataFrame(tweets): one row per record, labelled 0, 1, ... (RangeIndex)
DataFrame(records) ==
  [k \in 1..Len(records) |-> ("index" :> (k - 1)) @@ records[k]]

\* df[col] = ...: every row gets (or has replaced) the column `col`
SetColumn(frame, col, values) ==
  [k \in 1..Len(frame) |-> (col :> values[k]) @@ frame[k]]

Column(frame, col) == [k \in 1..Len(frame) |-> frame[k][col]]

\* Series.value_counts(): each value that occurs, with how often
value_counts(series) ==
  [v \in {series[k] : k \in 1..Len(series)} |->
     Cardinality({k \in 1..Len(series) : series[k] = v})]

\* TextBlob(x).sentiment.polarity: the external scorer, some function of the
\* text into [-1, 1]; `scorer` picks which one
Polarity(scorer, text) ==
  PolMin + ((scorer - PolMin + Len(text)) % (PolMax - PolMin + 1))

\* a labelling that counts a zero polarity as positive
SentimentLabelLax(x) ==
  IF x >= 0 THEN "Positive" ELSE (IF x < 0 THEN "Negative" ELSE "Neutral")

\* line 110: the lambda
SentimentLabel(x) ==
  IF x > 0 THEN "Positive" ELSE (IF x < 0 THEN "Negative" ELSE "Neutral")

\* line 121: " ".join(texts)
RECURSIVE Join(_)
Join(texts) ==
  IF texts = <<>> THEN ""
  ELSE IF Len(texts) = 1 THEN texts[1]
       ELSE texts[1] \o " " \o Join(Tail(texts))

\* WordCloud.process_text: the words are the runs of word characters (of the
\* characters the texts here are made of, the blank and "#" are not)
WordChar(c) == c \notin {" ", "#"}

UpperCase == "ABCDEFGHIJKLMNOPQRSTUVWXYZ"
LowerCase == "abcdefghijklmnopqrstuvwxyz"

\* str.lower()
LowerChar(c) ==
  IF \E k \in 1..Len(UpperCase) : SubSeq(UpperCase, k, k) = c
  THEN LET k == CHOOSE k \in 1..Len(UpperCase) : SubSeq(UpperCase, k, k) = c
       IN  SubSeq(LowerCase, k, k)
  ELSE c

RECURSIVE Lower(_)
Lower(w) == IF w = "" THEN "" ELSE LowerChar(SubSeq(w, 1, 1)) \o Lower(SubSeq(w, 2, Len(w)))

\* str.isdigit()
IsDigit(w) ==
  /\ w # ""
  /\ \A k \in 1..Len(w) : \E d \in 1..10 : SubSeq("0123456789", d, d) = SubSeq(w, k, k)

\* some of wordcloud's STOPWORDS: those the texts here contain, and a few more
StopWords == {"this", "is", "a", "about", "it", "the", "and", "to", "of", "in"}

\* the last position of the word that starts at position i
RECURSIVE WordEnd(_, _)
WordEnd(text, i) ==
  IF i > Len(text) \/ ~WordChar(SubSeq(text, i, i)) THEN i - 1
  ELSE WordEnd(text, i + 1)

\* process_text keeps the words that are no number (the default
\* include_numbers=False) and no stopword
Kept(w) == ~IsDigit(w) /\ Lower(w) \notin StopWords

\* whether process_text keeps a word of the text from position i on
RECURSIVE AnyWordFrom(_, _)
AnyWordFrom(text, i) ==
  IF i > Len(text) THEN FALSE
  ELSE IF ~WordChar(SubSeq(text, i, i)) THEN AnyWordFrom(text, i + 1)
       ELSE LET j == WordEnd(text, i)
            IN  IF Kept(SubSeq(text, i, j)) THEN TRUE
                ELSE AnyWordFrom(text, j + 1)

\* line 129: generate raises ValueError when no word is left
\* ("We need at least 1 word to plot a word cloud, got 0.")
WordCloudRaises(text) == ~AnyWordFrom(text, 1)

\* pd.to_datetime(created_at).dt.date: the day the timestamp falls in
ToDate(created_at) == created_at \div MinutesPerDay

RECURSIVE SortedSeq(_)
SortedSeq(S) ==
  IF S = {} THEN <<>>
  ELSE LET m == CHOOSE x \in S : \A y \in S : x <= y
       IN  <<m>> \o SortedSeq(S \ {m})

RECURSIVE FirstSeen(_)
FirstSeen(series) ==
  IF series = <<>> THEN <<>>
  ELSE LET rest == FirstSeen(SubSeq(series, 1, Len(series) - 1))
           last == series[Len(series)]
       IN  IF \E k \in 1..Len(rest) : rest[k] = last THEN rest
           ELSE Append(rest, last)

GroupSize(frame, col, key) ==
  <<key, Cardinality({k \in 1..Len(frame) : frame[k][col] = key})>>

\* a grouping that keeps the groups in order of first appearance (sort=False)
groupby_size_unsorted(frame, col) ==
  LET keys == FirstSeen(Column(frame, col))
  IN  [g \in 1..Len(keys) |-> GroupSize(frame, col, keys[g])]

\* df.groupby(col).size(): one entry per key, the keys sorted ascending
groupby_size(frame, col) ==
  LET keys == SortedSeq({frame[k][col] : k \in 1..Len(frame)})
  IN  [g \in 1..Len(keys) |-> GroupSize(frame, col, keys[g])]

RemoveAt(s, m) == SubSeq(s, 1, m - 1) \o SubSeq(s, m + 1, Len(s))

\* a selection that prefers the last of equal values (keep='last')
RECURSIVE nlargest_keep_last(_, _, _)
nlargest_keep_last(frame, n, col) ==
  IF n <= 0 \/ frame = <<>> THEN <<>>
  ELSE LET m == CHOOSE i \in 1..Len(frame) :
                  /\ \A j \in 1..Len(frame) : frame[j][col] <= frame[i][col]
                  /\ \A j \in (i + 1)..Len(frame) : frame[j][col] < frame[i][col]
       IN  <<frame[m]>> \o nlargest_keep_last(RemoveAt(frame, m), n - 1, col)

\* SelectNSeries.compute, the path for n < len: the n rows with the largest
\* values, largest first (a stable sort), the first occurrence first among
\* equal values (keep='first')
RECURSIVE nlargest_first(_, _, _)
nlargest_first(frame, n, col) ==
  IF n <= 0 \/ frame = <<>> THEN <<>>
  ELSE LET m == CHOOSE i \in 1..Len(frame) :
                  /\ \A j \in 1..Len(frame) : frame[j][col] <= frame[i][col]
                  /\ \A j \in 1..(i - 1) : frame[j][col] < frame[i][col]
       IN  <<frame[m]>> \o nlargest_first(RemoveAt(frame, m), n - 1, col)

\* sort_values(ascending=False) with the default sort, which is not stable:
\* every arrangement of the rows with the values descending
sort_values_descending(frame, col) ==
  { [k \in 1..Len(frame) |-> frame[p[k]]] :
      p \in { q \in Permutations(1..Len(frame)) :
                \A k \in 1..(Len(frame) - 1) :
                  frame[q[k]][col] >= frame[q[k + 1]][col] } }

\* DataFrame.nlargest(n, col) on one column: what it may return. For
\* n >= len it is sort_values(ascending=False).head(n), and keep plays no part
nlargest(frame, n, col) ==
  IF n >= Len(frame)
  THEN sort_values_descending(frame, col)
  ELSE {nlargest_first(frame, n, col)}

-----------------------------------------------------------------------------
(* The script, top to bottom *)

Show(level, text) == Append(ui, <<level, text>>)

TokenMissingMsg ==
  "Twitter Bearer Token not found! Please set BEARER_TOKEN in Render dashboard."
TokenLoadedMsg == "Twitter Token loaded."
ClientErrorMsg == "Error initializing Twitter client: "
FetchingMsg == "Fetching tweets..."
FetchErrorMsg == "Error fetching tweets: "
DemoDataMsg == "No tweets fetched from Twitter API. Showing demo data instead."
ShowingMsg(n) == "Showing " \o ToString(n) \o " tweets"
NoTweetsMsg == "No tweets available, even with mock data."

\* a check that takes only an unset variable as missing
TokenIsNone(tok) == tok = None
\* line 18: `if not BEARER_TOKEN` (None and the empty string are falsy)
TokenMissing(tok) == tok = None \/ tok = ""

\* line 24: `if BEARER_TOKEN`
TokenPresent(tok) == tok # None /\ tok # ""

\* a fallback that replaces short results
TooFew(t) == Len(t) < SliderMin
\* `tweets is None`: never true of a list
NoTweetsIsNone(t) == FALSE
\* line 89: `if not tweets`
NoTweets(t) == t = <<>>

\* a gate that opens only for more than TopN records
MoreThanTop(t) == Len(t) > TopN
\* line 93: `if tweets`
HasTweets(t) == t # <<>>

Blank ==
  /\ client = None /\ keyword = "" /\ max_results = 0 /\ clicked = FALSE
  /\ ui = <<>> /\ tweets = <<>> /\ fetch_ret = <<>> /\ fetch_error = None
  /\ escaped = None /\ api_calls = 0 /\ mock_calls = 0 /\ mock_ret = <<>>
  /\ now = 0 /\ df = <<>> /\ lang_counts = <<>> /\ sentiment_counts = <<>>
  /\ all_text = "" /\ trend = <<>> /\ top_likes = <<>> /\ top_retweets = <<>>

\* the script starts: the environment holds the token or not
Init ==
  /\ BEARER_TOKEN \in TokenValues
  /\ pc = "token"
  /\ Blank

\* lines 16-21
CheckToken ==
  /\ pc = "token"
  /\ ui' = IF TokenMissing(BEARER_TOKEN)
           THEN Show("error", TokenMissingMsg)
           ELSE Show("success", TokenLoadedMsg)
  /\ pc' = "client"
  /\ UNCHANGED <<BEARER_TOKEN, client, keyword, max_results, clicked, tweets,
                 fetch_ret, fetch_error, escaped, api_calls, mock_calls,
                 mock_ret, now, df, lang_counts, sentiment_counts, all_text,
                 trend, top_likes, top_retweets>>

\* lines 23-28: the constructor returns the handle or raises
InitClient ==
  /\ pc = "client"
  /\ \E raises \in BOOLEAN :
       IF TokenPresent(BEARER_TOKEN)
       THEN IF raises
            THEN client' = None /\ ui' = Show("error", ClientErrorMsg \o "Exception")
            ELSE client' = "Client" /\ ui' = ui
       ELSE client' = None /\ ui' = ui
  /\ pc' = "widgets"
  /\ UNCHANGED <<BEARER_TOKEN, keyword, max_results, clicked, tweets,
                 fetch_ret, fetch_error, escaped, api_calls, mock_calls,
                 mock_ret, now, df, lang_counts, sentiment_counts, all_text,
                 trend, top_likes, top_retweets>>

\* lines 33-36 and 84-85: the widgets' values and whether the button was pressed
Widgets ==
  /\ pc = "widgets"
  /\ \E k \in Keywords, m \in SliderMin..SliderMax, c \in BOOLEAN :
       /\ keyword' = k
       /\ max_results' = m
       /\ clicked' = c
       /\ ui' = IF c THEN Show("info", FetchingMsg) ELSE ui
       /\ pc' = IF c THEN "fetch" ELSE "done"
  /\ UNCHANGED <<BEARER_TOKEN, client, tweets, fetch_ret, fetch_error, escaped,
                 api_calls, mock_calls, mock_ret, now, df, lang_counts,
                 sentiment_counts, all_text, trend, top_likes, top_retweets>>

\* line 87: tweets = fetch_tweets(keyword, max_results)
CallFetch ==
  /\ pc = "fetch"
  /\ \E api \in ApiOutcomes(max_results) :
       LET r == fetch_tweets(client, api)
       IN  /\ tweets' = r.ret
           /\ fetch_ret' = r.ret
           /\ fetch_error' = r.error
           /\ escaped' = r.escaped
           /\ api_calls' = api_calls + r.calls
           /\ ui' = IF r.error # None
                    THEN Show("error", FetchErrorMsg \o r.error)
                    ELSE ui
  /\ pc' = "fallback"
  /\ UNCHANGED <<BEARER_TOKEN, client, keyword, max_results, clicked,
                 mock_calls, mock_ret, now, df, lang_counts, sentiment_counts,
                 all_text, trend, top_likes, top_retweets>>

\* lines 89-91
Fallback ==
  /\ pc = "fallback"
  /\ IF NoTweets(tweets)
     THEN \E t \in NowValues :
            /\ now' = t
            /\ mock_ret' = generate_mock_data(keyword, max_results, t)
            /\ tweets' = mock_ret'
            /\ mock_calls' = mock_calls + 1
            /\ ui' = Show("warning", DemoDataMsg)
     ELSE UNCHANGED <<now, mock_ret, tweets, mock_calls, ui>>
  /\ pc' = "render"
  /\ UNCHANGED <<BEARER_TOKEN, client, keyword, max_results, clicked,
                 fetch_ret, fetch_error, escaped, api_calls, df, lang_counts,
                 sentiment_counts, all_text, trend, top_likes, top_retweets>>

\* lines 93-96 and 169-170
BuildDataFrame ==
  /\ pc = "render"
  /\ IF HasTweets(tweets)
     THEN /\ df' = DataFrame(tweets)
          /\ ui' = Show("success", ShowingMsg(Len(df')))
          /\ pc' = "lang"
     ELSE /\ df' = df
          /\ ui' = Show("error", NoTweetsMsg)
          /\ pc' = "done"
  /\ UNCHANGED <<BEARER_TOKEN, client, keyword, max_results, clicked, tweets,
                 fetch_ret, fetch_error, escaped, api_calls, mock_calls,
                 mock_ret, now, lang_counts, sentiment_counts, all_text,
                 trend, top_likes, top_retweets>>

\* lines 98-104
LanguageDistribution ==
  /\ pc = "lang"
  /\ lang_counts' = value_counts(Column(df, "lang"))
  /\ pc' = "sentiment"
  /\ UNCHANGED <<BEARER_TOKEN, client, keyword, max_results, clicked, ui,
                 tweets, fetch_ret, fetch_error, escaped, api_calls,
                 mock_calls, mock_ret, now, df, sentiment_counts, all_text,
                 trend, top_likes, top_retweets>>

\* line 108
WithSentiment(frame, scorer) ==
  SetColumn(frame, "sentiment",
            [k \in 1..Len(frame) |-> Polarity(scorer, frame[k].text)])

\* lines 109-111
WithSentimentLabel(frame) ==
  SetColumn(frame, "sentiment_label",
            [k \in 1..Len(frame) |-> SentimentLabel(frame[k].sentiment)])

\* lines 106-117
SentimentAnalysis ==
  /\ pc = "sentiment"
  /\ \E scorer \in Polarities :
       df' = WithSentimentLabel(WithSentiment(df, scorer))
  /\ sentiment_counts' = value_counts(Column(df', "sentiment_label"))
  /\ pc' = "wordcloud"
  /\ UNCHANGED <<BEARER_TOKEN, client, keyword, max_results, clicked, ui,
                 tweets, fetch_ret, fetch_error, escaped, api_calls,
                 mock_calls, mock_ret, now, lang_counts, all_text, trend,
                 top_likes, top_retweets>>

\* lines 119-133: an exception of generate is not caught; the execution ends
\* there and Streamlit shows the exception
WordCloudStep ==
  /\ pc = "wordcloud"
  /\ all_text' = Join(Column(df, "text"))
  /\ IF WordCloudRaises(all_text')
     THEN ui' = Show("exception", "ValueError") /\ pc' = "aborted"
     ELSE ui' = ui /\ pc' = "trend"
  /\ UNCHANGED <<BEARER_TOKEN, client, keyword, max_results, clicked,
                 tweets, fetch_ret, fetch_error, escaped, api_calls,
                 mock_calls, mock_ret, now, df, lang_counts, sentiment_counts,
                 trend, top_likes, top_retweets>>

\* a date column that is also written over created_at
WithDateInPlace(frame) ==
  SetColumn(SetColumn(frame, "date",
                      [k \in 1..Len(frame) |-> ToDate(frame[k].created_at)]),
            "created_at",
            [k \in 1..Len(frame) |-> ToDate(frame[k].created_at)])

\* line 137
WithDate(frame) ==
  SetColumn(frame, "date",
            [k \in 1..Len(frame) |-> ToDate(frame[k].created_at)])

\* lines 135-145
TweetTrend ==
  /\ pc = "trend"
  /\ df' = WithDate(df)
  /\ trend' = groupby_size(df', "date")
  /\ pc' = "top_likes"
  /\ UNCHANGED <<BEARER_TOKEN, client, keyword, max_results, clicked, ui,
                 tweets, fetch_ret, fetch_error, escaped, api_calls,
                 mock_calls, mock_ret, now, lang_counts, sentiment_counts,
                 all_text, top_likes, top_retweets>>

\* lines 147-156
TopLiked ==
  /\ pc = "top_likes"
  /\ top_likes' \in nlargest(df, TopN, "likes")
  /\ pc' = "top_retweets"
  /\ UNCHANGED <<BEARER_TOKEN, client, keyword, max_results, clicked, ui,
                 tweets, fetch_ret, fetch_error, escaped, api_calls,
                 mock_calls, mock_ret, now, df, lang_counts, sentiment_counts,
                 all_text, trend, top_retweets>>

\* lines 158-167
TopRetweeted ==
  /\ pc = "top_retweets"
  /\ top_retweets' \in nlargest(df, TopN, "retweets")
  /\ pc' = "done"
  /\ UNCHANGED <<BEARER_TOKEN, client, keyword, max_results, clicked, ui,
                 tweets, fetch_ret, fetch_error, escaped, api_calls,
                 mock_calls, mock_ret, now, df, lang_counts, sentiment_counts,
                 all_text, trend, top_likes>>

\* the next interaction: Streamlit runs the script again from the top, in the
\* same process (the environment is the same)
Rerun ==
  /\ pc \in {"done", "aborted"}
  /\ pc' = "token"
  /\ client' = None /\ keyword' = "" /\ max_results' = 0 /\ clicked' = FALSE
  /\ ui' = <<>> /\ tweets' = <<>> /\ fetch_ret' = <<>> /\ fetch_error' = None
  /\ escaped' = None /\ api_calls' = 0 /\ mock_calls' = 0 /\ mock_ret' = <<>>
  /\ now' = 0 /\ df' = <<>> /\ lang_counts' = <<>> /\ sentiment_counts' = <<>>
  /\ all_text' = "" /\ trend' = <<>> /\ top_likes' = <<>> /\ top_retweets' = <<>>
  /\ UNCHANGED BEARER_TOKEN

Next ==
  \/ CheckToken
  \/ InitClient
  \/ Widgets
  \/ CallFetch
  \/ Fallback
  \/ BuildDataFrame
  \/ LanguageDistribution
  \/ SentimentAnalysis
  \/ WordCloudStep
  \/ TweetTrend
  \/ TopLiked
  \/ TopRetweeted
  \/ Rerun

Spec == Init /\ [][Next]_vars

-----------------------------------------------------------------------------
(* The derived metrics on their own: the script stands at line 93 with the *)
(* records a search returned                                               *)

PipeRecords == { ToRecord(t) : t \in GoodTweets }

PipeInputs == UNION { [1..k -> PipeRecords] : k \in 1..MaxRecs }

\* what lines 87-91 leave behind: records the search returned, or mock records
PipeSources ==
  { [tweets |-> t, fetch_ret |-> t, mock_ret |-> <<>>, mock_calls |-> 0,
     now |-> 0, max_results |-> SliderDefault,
     ui |-> <<<<"success", TokenLoadedMsg>>, <<"info", FetchingMsg>>>>] :
    t \in PipeInputs } \cup
  { [tweets |-> generate_mock_data("Pakistan", n, t), fetch_ret |-> <<>>,
     mock_ret |-> generate_mock_data("Pakistan", n, t), mock_calls |-> 1,
     now |-> t, max_results |-> n,
     ui |-> <<<<"success", TokenLoadedMsg>>, <<"info", FetchingMsg>>,
              <<"warning", DemoDataMsg>>>>] :
    n \in SliderMin..SliderMax, t \in NowValues }

InitPipe ==
  /\ BEARER_TOKEN = "AAAA"
  /\ client = "Client"
  /\ keyword = "Pakistan"
  /\ clicked = TRUE
  /\ pc = "render"
  /\ \E src \in PipeSources :
       /\ tweets = src.tweets
       /\ fetch_ret = src.fetch_ret
       /\ mock_ret = src.mock_ret
       /\ mock_calls = src.mock_calls
       /\ now = src.now
       /\ max_results = src.max_results
       /\ ui = src.ui
  /\ fetch_error = None /\ escaped = None /\ api_calls = 1
  /\ df = <<>> /\ lang_counts = <<>> /\ sentiment_counts = <<>>
  /\ all_text = "" /\ trend = <<>> /\ top_likes = <<>> /\ top_retweets = <<>>

\* lines 93-145
NextPipe ==
  \/ BuildDataFrame
  \/ LanguageDistribution
  \/ SentimentAnalysis
  \/ WordCloudStep
  \/ TweetTrend

SpecPipe == InitPipe /\ [][NextPipe]_vars

-----------------------------------------------------------------------------
(* The two top-5 selections on their own: the script stands at line 147,   *)
(* lines 93-145 behind it                                                  *)

\* the DataFrame as lines 94-137 leave it
FrameAtTop(records, scorer) ==
  WithDate(WithSentimentLabel(WithSentiment(DataFrame(records), scorer)))

InitTop ==
  /\ BEARER_TOKEN = "AAAA"
  /\ client = "Client"
  /\ keyword = "Pakistan"
  /\ clicked = TRUE
  /\ pc = "top_likes"
  /\ \E src \in PipeSources :
       /\ ~WordCloudRaises(Join(Column(src.tweets, "text")))
       /\ tweets = src.tweets
       /\ fetch_ret = src.fetch_ret
       /\ mock_ret = src.mock_ret
       /\ mock_calls = src.mock_calls
       /\ now = src.now
       /\ max_results = src.max_results
       /\ ui = Append(src.ui, <<"success", ShowingMsg(Len(src.tweets))>>)
  /\ fetch_error = None /\ escaped = None /\ api_calls = 1
  /\ df = FrameAtTop(tweets, 0)
  /\ lang_counts = value_counts(Column(df, "lang"))
  /\ sentiment_counts = value_counts(Column(df, "sentiment_label"))
  /\ all_text = Join(Column(df, "text"))
  /\ trend = groupby_size(df, "date")
  /\ top_likes = <<>> /\ top_retweets = <<>>

\* lines 147-167
NextTop ==
  \/ TopLiked
  \/ TopRetweeted

SpecTop == InitTop /\ [][NextTop]_vars

-----------------------------------------------------------------------------
(* generate_mock_data on its own: the script stands at line 89 with nothing *)
(* fetched, for every count from 1 up                                       *)

InitMock ==
  /\ BEARER_TOKEN \in {None, "AAAA"}
  /\ client = IF BEARER_TOKEN = None THEN None ELSE "Client"
  /\ keyword \in Keywords
  /\ max_results \in 1..SliderMax
  /\ clicked = TRUE
  /\ pc = "fallback"
  /\ ui = IF BEARER_TOKEN = None
          THEN <<<<"error", TokenMissingMsg>>, <<"info", FetchingMsg>>>>
          ELSE <<<<"success", TokenLoadedMsg>>, <<"info", FetchingMsg>>>>
  /\ tweets = <<>> /\ fetch_ret = <<>> /\ fetch_error = None /\ escaped = None
  /\ api_calls = IF BEARER_TOKEN = None THEN 0 ELSE 1
  /\ mock_calls = 0 /\ mock_ret = <<>> /\ now = 0
  /\ df = <<>> /\ lang_counts = <<>> /\ sentiment_counts = <<>>
  /\ all_text = "" /\ trend = <<>> /\ top_likes = <<>> /\ top_retweets = <<>>

NextMock == Fallback

SpecMock == InitMock /\ [][NextMock]_vars

-----------------------------------------------------------------------------
(* Properties *)

PipelinePcs ==
  {"lang", "sentiment", "wordcloud", "trend", "top_likes", "top_retweets"}

\* fetch_tweets has returned in this execution
AfterFetch == clicked /\ pc # "fetch"
\* lines 89-91 are behind
AfterFallback == AfterFetch /\ pc # "fallback"

Shown(level, text) == \E k \in 1..Len(ui) : ui[k] = <<level, text>>
ErrorShown == \E k \in 1..Len(ui) : ui[k][1] = "error"

RecordFields == {"text", "created_at", "lang", "retweets", "likes"}
DerivedFields == {"sentiment", "sentiment_label", "date"}

\* the five source fields of every row, in row order
Records(frame) ==
  [k \in 1..Len(frame) |->
     [text |-> frame[k].text, created_at |-> frame[k].created_at,
      lang |-> frame[k].lang, retweets |-> frame[k].retweets,
      likes |-> frame[k].likes]]

\* the client failed: no handle, or an exception in the search or the reading
FetchFailed == client = None \/ fetch_error # None

\* C1 (as claimed): fetch_tweets lets no exception through, and whenever the
\* client failed it returned the empty sequence and an error message is shown.
C1_FailureReturnsEmpty ==
  AfterFetch =>
    /\ escaped = None
    /\ FetchFailed => (fetch_ret = <<>> /\ ErrorShown)

\* C2: once lines 89-91 are behind, generate_mock_data was called exactly when
\* fetch_tweets returned the empty sequence; `tweets`, and the rows of the
\* DataFrame once built, are then the generator's output, and otherwise what
\* fetch_tweets returned.
C2_FallbackExactlyWhenEmpty ==
  AfterFallback =>
    /\ mock_calls = (IF fetch_ret = <<>> THEN 1 ELSE 0)
    /\ mock_calls = 1 => mock_ret = generate_mock_data(keyword, max_results, now)
    /\ tweets = (IF fetch_ret = <<>> THEN mock_ret ELSE fetch_ret)
    /\ df # <<>> => Records(df) = (IF fetch_ret = <<>> THEN mock_ret ELSE fetch_ret)

C2_Witness ==
  /\ pc = "done" /\ clicked
  /\ fetch_error = "TweepyException"
  /\ mock_calls = 1
  /\ Len(df) = max_results

\* C3: generate_mock_data(q, count) returns count records; the record of index
\* i has lang "en", 2i retweets, 3i likes, a text containing q and i, and
\* created_at = now - 5i minutes, so created_at strictly decreases with i.
C3_MockRecords ==
  mock_calls = 1 =>
    /\ Len(mock_ret) = max_results
    /\ \A i \in 0..(max_results - 1) :
         LET r == mock_ret[i + 1]
         IN  /\ DOMAIN r = RecordFields
             /\ r.lang = "en"
             /\ r.retweets = 2 * i
             /\ r.likes = 3 * i
             /\ Contains(r.text, keyword)
             /\ Contains(r.text, "#" \o ToString(i))
             /\ r.created_at = now - 5 * i
    /\ \A k \in 1..(Len(mock_ret) - 1) :
         mock_ret[k].created_at > mock_ret[k + 1].created_at

C3_Witness ==
  /\ mock_calls = 1
  /\ max_results = 1
  /\ keyword = "India wins"

\* C4: what is passed into the derived metrics is never empty: `tweets` when
\* line 93 is reached, the DataFrame at every later line, and every pressed
\* execution that ended went through them.
C4_PipelineInputNonEmpty ==
  /\ (AfterFallback /\ pc = "render") => tweets # <<>>
  /\ pc \in PipelinePcs => (df # <<>> /\ Len(df) = Len(tweets))
  /\ (clicked /\ pc = "done") => df # <<>>
  /\ (AfterFallback /\ mock_calls = 1) =>
       (Len(tweets) = max_results /\ max_results \in 5..20)

C4_Witness ==
  /\ pc = "lang"
  /\ client = None
  /\ max_results = 20
  /\ Len(df) = 20

\* C5: without a client handle no search call is made and fetch_tweets returns
\* the empty sequence, the execution takes the fallback and ends with every
\* metric produced from the mock data, and an error message tells of the
\* missing or unusable credential.
C5_NoClientFallsBack ==
  (client = None /\ pc \notin {"token", "client"}) =>
    /\ api_calls = 0
    /\ pc # "aborted"
    /\ \/ Shown("error", TokenMissingMsg)
       \/ Shown("error", ClientErrorMsg \o "Exception")
    /\ AfterFetch => (fetch_ret = <<>> /\ fetch_error = None /\ escaped = None)
    /\ AfterFallback => (mock_calls = 1 /\ tweets = mock_ret)
    /\ (clicked /\ pc = "done") =>
         /\ Records(df) = mock_ret
         /\ Len(df) = max_results
         /\ DOMAIN lang_counts = {"en"}
         /\ DOMAIN sentiment_counts # {}
         /\ trend # <<>>
         /\ Len(top_likes) = 5
         /\ Len(top_retweets) = 5

C5_Witness ==
  /\ clicked /\ pc = "done"
  /\ BEARER_TOKEN = "AAAA"
  /\ client = None
  /\ Len(top_retweets) = 5

\* C6: every row that has a label has exactly the label its polarity decides:
\* Positive iff above zero, Negative iff below, Neutral iff zero.
C6_LabelByPolarity ==
  \A k \in 1..Len(df) :
    "sentiment_label" \in DOMAIN df[k] =>
      LET p == df[k].sentiment
          l == df[k].sentiment_label
      IN  /\ p \in Polarities
          /\ l \in {"Positive", "Negative", "Neutral"}
          /\ (l = "Positive") <=> (p > 0)
          /\ (l = "Negative") <=> (p < 0)
          /\ (l = "Neutral") <=> (p = 0)

C6_Witness ==
  /\ pc = "top_likes"
  /\ \E a, b, c \in 1..Len(df) :
       /\ df[a].sentiment_label = "Positive"
       /\ df[b].sentiment_label = "Negative"
       /\ df[c].sentiment_label = "Neutral"

\* the result `top` of nlargest(5, col) on the DataFrame
TopOk(top, col) ==
  /\ Len(top) = Min(5, Len(df))
  /\ \A k \in 1..Len(top) : df[top[k].index + 1] = top[k]
  /\ \A k \in 1..(Len(top) - 1) :
       \/ top[k][col] > top[k + 1][col]
       \/ top[k][col] = top[k + 1][col] /\ top[k].index < top[k + 1].index
  /\ \A j \in 1..Len(df) :
       (\A k \in 1..Len(top) : top[k].index # df[j].index) =>
         \A k \in 1..Len(top) : df[j][col] <= top[k][col]

\* C7 (as claimed): the top 5 by likes, and the top 5 by retweets, have
\* min(5, N) rows, largest count first, equal counts in input order, and no
\* row left out has a larger count than a row taken; likes 0,3,...,27 give
\* 27,24,21,18,15.
C7_TopFive ==
  /\ pc \in {"top_retweets", "done"} => TopOk(top_likes, "likes")
  /\ pc = "done" => TopOk(top_retweets, "retweets")
  /\ (pc = "done" /\ Column(df, "likes") = <<0, 3, 6, 9, 12, 15, 18, 21, 24, 27>>)
       => Column(top_likes, "likes") = <<27, 24, 21, 18, 15>>

\* the result `top` of nlargest(5, col), equal counts in input order only
\* when there are more than 5 rows
TopOkAbove5(top, col) ==
  /\ Len(top) = Min(5, Len(df))
  /\ \A k \in 1..Len(top) : df[top[k].index + 1] = top[k]
  /\ \A a, b \in 1..Len(top) : a # b => top[a].index # top[b].index
  /\ \A k \in 1..(Len(top) - 1) : top[k][col] >= top[k + 1][col]
  /\ Len(df) > 5 =>
       \A k \in 1..(Len(top) - 1) :
         top[k][col] = top[k + 1][col] => top[k].index < top[k + 1].index
  /\ \A j \in 1..Len(df) :
       (\A k \in 1..Len(top) : top[k].index # df[j].index) =>
         \A k \in 1..Len(top) : df[j][col] <= top[k][col]

\* C7 (amended): the top 5 by likes, and the top 5 by retweets, are min(5, N)
\* distinct rows, largest count first, and no row left out has a larger count
\* than a row taken; equal counts are in input order when N > 5; likes
\* 0,3,...,27 give 27,24,21,18,15.
C7_TopFiveAbove5 ==
  /\ pc \in {"top_retweets", "done"} => TopOkAbove5(top_likes, "likes")
  /\ pc = "done" => TopOkAbove5(top_retweets, "retweets")
  /\ (pc = "done" /\ Column(df, "likes") = <<0, 3, 6, 9, 12, 15, 18, 21, 24, 27>>)
       => Column(top_likes, "likes") = <<27, 24, 21, 18, 15>>

C7_Witness ==
  /\ pc = "done"
  /\ Len(df) > 5
  /\ top_likes[1].likes = top_likes[2].likes
  /\ top_retweets[4].retweets > top_retweets[5].retweets
  /\ \E j \in 1..Len(df) :
       /\ \A k \in 1..5 : top_likes[k].index # df[j].index
       /\ df[j].likes = top_likes[5].likes

RECURSIVE SumCounts(_)
SumCounts(buckets) ==
  IF buckets = <<>> THEN 0 ELSE buckets[1][2] + SumCounts(Tail(buckets))

\* C8: the trend has one bucket per distinct date of created_at, in
\* chronological order, each counting the rows of its date; the counts add up
\* to the number of rows.
C8_TrendBuckets ==
  pc \in {"top_likes", "top_retweets", "done"} =>
    /\ {trend[g][1] : g \in 1..Len(trend)} =
         {tweets[k].created_at \div 1440 : k \in 1..Len(tweets)}
    /\ \A g \in 1..(Len(trend) - 1) : trend[g][1] < trend[g + 1][1]
    /\ \A g \in 1..Len(trend) :
         trend[g][2] =
           Cardinality({k \in 1..Len(tweets) :
                          tweets[k].created_at \div 1440 = trend[g][1]})
    /\ SumCounts(trend) = Len(tweets)

C8_Witness ==
  /\ pc = "top_likes"
  /\ Len(trend) = 2
  /\ trend[1][2] > 1
  /\ tweets[1].created_at > tweets[2].created_at
  /\ tweets[1].created_at \div 1440 > tweets[2].created_at \div 1440

RunRendered ==
  /\ df # <<>>
  /\ DOMAIN lang_counts # {}
  /\ DOMAIN sentiment_counts # {}
  /\ all_text # ""
  /\ trend # <<>>
  /\ top_likes # <<>>
  /\ top_retweets # <<>>

NothingRendered ==
  /\ df = <<>>
  /\ DOMAIN lang_counts = {}
  /\ DOMAIN sentiment_counts = {}
  /\ all_text = ""
  /\ trend = <<>>
  /\ top_likes = <<>>
  /\ top_retweets = <<>>

\* the execution is over: the last line was run, or an exception ended it
RunEnded == pc \in {"done", "aborted"}

\* C9 (as claimed): a pressed execution ends with the metrics produced from a
\* non-empty sequence or with the "no tweets" error, never both and never
\* neither; the error is shown exactly when `tweets` is empty after the
\* fallback, and then nothing of the metrics was computed.
C9_MetricsOrError ==
  /\ (clicked /\ RunEnded) =>
       /\ RunRendered # Shown("error", NoTweetsMsg)
       /\ Shown("error", NoTweetsMsg) <=> (tweets = <<>>)
       /\ RunRendered => Shown("success", ShowingMsg(Len(tweets)))
  /\ Shown("error", NoTweetsMsg) => (RunEnded /\ NothingRendered)

\* C10: the derived metrics leave the records as they were: the rows of the
\* DataFrame are the records of `tweets`, in order, which are what the source
\* returned; the source sets the five record fields only, and the DataFrame
\* adds only the index and the derived fields.
C10_RecordsUnchanged ==
  /\ AfterFetch => \A k \in 1..Len(tweets) : DOMAIN tweets[k] = RecordFields
  /\ AfterFallback =>
       tweets = (IF fetch_ret = <<>> THEN mock_ret ELSE fetch_ret)
  /\ (pc \in PipelinePcs \/ (RunEnded /\ df # <<>>)) =>
       /\ Records(df) = tweets
       /\ \A k \in 1..Len(df) :
            /\ df[k].index = k - 1
            /\ RecordFields \subseteq DOMAIN df[k]
            /\ DOMAIN df[k] \subseteq RecordFields \cup DerivedFields \cup {"index"}

C10_Witness ==
  /\ pc = "done"
  /\ fetch_ret # <<>>
  /\ Len(df) = 2
  /\ DerivedFields \subseteq DOMAIN df[1]
  /\ top_likes[1].index = 1

=============================================================================
